---- MODULE Spec2Model ----
(***************************************************************************)
(* Reference-name extraction engine of jcdl25-scalable-wikipedia-ner:      *)
(* position-preserving wikitext masking (modules/utils.py), citation      *)
(* author-field extraction and vocabulary scanning                         *)
(* (modules/reference_list_parser_processor.py), token merging and case    *)
(* filtering (modules/utils.py) and the two vocabulary-driven batch        *)
(* pipelines (wikipedia_parser_processor.py, wikipedia_hybrid_processor.py)*)
(*                                                                         *)
(* A text is a sequence of characters; a character is a one-character      *)
(* string, except that "eacute" / "EACUTE" stand for a lowercase / an      *)
(* uppercase letter outside ASCII.  Python offsets are zero-based, TLA+    *)
(* sequence indices one-based: offset o is index o + 1.                    *)
(***************************************************************************)
EXTENDS Integers, Sequences, FiniteSets, TLC

VARIABLES
    pc,               \* position of the running routine
    wikitext,         \* the text argument of the routine under study
    processed_text,   \* filter_wikitext: the text after the substitutions done so far
    remasked,         \* filter_wikitext applied to its own output
    name_set,         \* find_names_in_wikitext: the vocabulary
    quotes,           \* find_names_in_wikitext: the quotes argument
    results,          \* the match list being built / merged in place
    i,                \* merge_adjacent_tokens_in_result_list: the loop index
    iterations,       \* number of executions of the merge loop body
    merge_input,      \* the list handed to merge_adjacent_tokens_in_result_list
    merged,           \* the list merge_adjacent_tokens_in_result_list returned
    returned,         \* the list exclude_uniform_case_tokens returned
    raw_name_parts,   \* the set extract_raw_names_from_citations returned
    name_parts,       \* the set extract_names_from_citations returned
    pipeline,         \* "parser" (wikipedia_parser_processor) or "hybrid" (wikipedia_hybrid_processor)
    dump,             \* the pages of the dump, each the list of its revisions
    revision_mapping, \* the revision ids that have an output file name
    page_no,          \* the page the loop over the dump is at
    rev_no,           \* the revision the loop over page_list is at
    reference_list,   \* the vocabulary of the current page
    scanned,          \* the revisions find_names_in_wikitext was called on
    written,          \* the results written, as [revision_id, names]
    errors            \* the failures logged, as [revision, stage]

maskVars == <<wikitext, processed_text, remasked>>
scanVars == <<name_set, quotes, results, i, iterations, merge_input, merged, returned>>

citeVars == <<raw_name_parts, name_parts>>
batchVars == <<pipeline, dump, revision_mapping, page_no, rev_no, reference_list,
               scanned, written, errors>>

vars == <<pc, maskVars, scanVars, citeVars, batchVars>>

-----------------------------------------------------------------------------
(* Characters and Python's character classes                               *)

LowerLetters == <<"a", "b", "c", "d", "e", "f", "g", "h", "i", "j", "k", "l", "m", "n", "o", "p", "q", "r", "s", "t", "u", "v", "w", "x", "y", "z", "eacute">>
UpperLetters == <<"A", "B", "C", "D", "E", "F", "G", "H", "I", "J", "K", "L", "M", "N", "O", "P", "Q", "R", "S", "T", "U", "V", "W", "X", "Y", "Z", "EACUTE">>
Digits == {"0", "1", "2", "3", "4", "5", "6", "7", "8", "9"}

AsciiLower == {LowerLetters[k] : k \in 1..26}
AsciiUpper == {UpperLetters[k] : k \in 1..26}
Lower == {LowerLetters[k] : k \in 1..Len(LowerLetters)}
Upper == {UpperLetters[k] : k \in 1..Len(UpperLetters)}
Letters == Lower \cup Upper

\* str.lower() on one character, as re.IGNORECASE compares
ToLower == [c \in Upper |-> LowerLetters[CHOOSE k \in 1..Len(UpperLetters) : UpperLetters[k] = c]]
Fold(c) == IF c \in Upper THEN ToLower[c] ELSE c

\* \w, \s, \d and [^\W\d_] under re.UNICODE
IsWord(c) == c \in Letters \cup Digits \cup {"_"}
IsSpace(c) == c \in {" ", "\n", "\t"}
IsLetter(c) == c \in Letters

\* the value None of a text argument (no character is "<None>")
None == <<"<None>">>

Spaces(n) == [k \in 1..n |-> " "]

Min(S) == CHOOSE x \in S : \A y \in S : x <= y

\* the literal lit (lower case) occurs in s at index p; ci: ignoring case
HasPrefix(s, p, lit, ci) ==
    /\ p >= 1
    /\ p + Len(lit) - 1 <= Len(s)
    /\ \A k \in 1..Len(lit) : (IF ci THEN Fold(s[p + k - 1]) ELSE s[p + k - 1]) = lit[k]

\* the first index q >= from with s[q] = c, or 0
FirstChar(s, from, c) ==
    LET S == {q \in from..Len(s) : s[q] = c}
    IN  IF S = {} THEN 0 ELSE Min(S)

\* the first index q >= from where the literal occurs, or 0
FirstLiteral(s, from, lit, ci) ==
    LET S == {q \in from..Len(s) : HasPrefix(s, q, lit, ci)}
    IN  IF S = {} THEN 0 ELSE Min(S)

\* the first index q >= from that holds no whitespace (Len(s) + 1 at the end): \s*
RECURSIVE SkipSpace(_, _)
SkipSpace(s, from) ==
    IF from <= Len(s) /\ IsSpace(s[from]) THEN SkipSpace(s, from + 1) ELSE from

-----------------------------------------------------------------------------
(* COMBINED_PATTERN: the alternatives in their order.  A match is a pair   *)
(* <<start, end>> of indices, end exclusive.                               *)

COMBINED_PATTERN == <<
    [kind |-> "template", open |-> <<"{", "{", "c", "i", "t", "e">>],
    [kind |-> "template", open |-> <<"{", "{", "c", "i", "t", "a", "t", "i", "o", "n">>],
    [kind |-> "template", open |-> <<"{", "{", "h", "a", "r", "v", "a", "r", "d", " ", "c", "i", "t", "a", "t", "i", "o", "n">>],
    [kind |-> "template", open |-> <<"{", "{", "r", "v", "n", "b">>],
    [kind |-> "template", open |-> <<"{", "{", "h", "a", "r", "v">>],
    [kind |-> "template", open |-> <<"{", "{", "h", "a", "r", "v", "t", "x", "t">>],
    [kind |-> "template", open |-> <<"{", "{", "h", "a", "r", "v", "c", "o", "l", "t", "x", "t">>],
    [kind |-> "template", open |-> <<"{", "{", "h", "a", "r", "v", "c", "o", "l">>],
    [kind |-> "template", open |-> <<"{", "{", "h", "a", "r", "v", "c", "o", "l", "n", "b">>],
    [kind |-> "template", open |-> <<"{", "{", "h", "a", "r", "v", "s">>],
    [kind |-> "template", open |-> <<"{", "{", "h", "a", "r", "v", "p">>],
    [kind |-> "template", open |-> <<"{", "{", "h", "a", "r", "v", "c">>],
    [kind |-> "template", open |-> <<"{", "{", "c", "i", "t", "e", "c">>],
    [kind |-> "template", open |-> <<"{", "{", "s", "f", "n">>],
    [kind |-> "template", open |-> <<"{", "{", "s", "f", "n", "p">>],
    [kind |-> "template", open |-> <<"{", "{", "s", "f", "n", "m">>],
    [kind |-> "template", open |-> <<"{", "{", "s", "f", "n", "m", "p">>],
    [kind |-> "template", open |-> <<"{", "{", "e", "f", "n">>],
    [kind |-> "selfref",  open |-> <<"<", "r", "e", "f">>],
    [kind |-> "ref",      open |-> <<"<", "r", "e", "f">>],
    [kind |-> "comment",  open |-> <<"<", "!", "-", "-">>],
    [kind |-> "heading",  open |-> <<"=", "=">>] >>

HEADINGS == <<<<"e", "x", "t", "e", "r", "n", "a", "l", " ", "l", "i", "n", "k", "s">>, <<"s", "e", "e", " ", "a", "l", "s", "o">>, <<"f", "u", "r", "t", "h", "e", "r", " ", "r", "e", "a", "d", "i", "n", "g">>>>

\* \{\{name[^}]*?\}\} : the first } after the opener must start }}
TemplateEnd(s, p, open) ==
    IF ~HasPrefix(s, p, open, TRUE) THEN 0
    ELSE LET q == FirstChar(s, p + Len(open), "}")
         IN  IF q # 0 /\ q + 1 <= Len(s) /\ s[q + 1] = "}" THEN q + 2 ELSE 0

\* <ref[^>]*?\/> : the first > after <ref must follow a /
SelfClosingRefEnd(s, p, open) ==
    IF ~HasPrefix(s, p, open, TRUE) THEN 0
    ELSE LET g == FirstChar(s, p + Len(open), ">")
         IN  IF g # 0 /\ g - 1 >= p + Len(open) /\ s[g - 1] = "/" THEN g + 1 ELSE 0

\* <ref[^>]*?>.*?<\/ref> : up to the first </ref> after the first >
RefEnd(s, p, open) ==
    IF ~HasPrefix(s, p, open, TRUE) THEN 0
    ELSE LET g == FirstChar(s, p + Len(open), ">")
         IN  IF g = 0 THEN 0
             ELSE LET c == FirstLiteral(s, g + 1, <<"<", "/", "r", "e", "f", ">">>, TRUE)
                  IN  IF c = 0 THEN 0 ELSE c + 6

\* <!--.*?--> : up to the first --> after the opener
CommentEnd(s, p, open) ==
    IF ~HasPrefix(s, p, open, FALSE) THEN 0
    ELSE LET c == FirstLiteral(s, p + Len(open), <<"-", "-", ">">>, FALSE)
         IN  IF c = 0 THEN 0 ELSE c + 3

\* ==\s*(?:External links|See also|Further reading)\s*==[\s\S]* : to the end
HeadingEndAtMarker(s, p, open) ==
    IF ~HasPrefix(s, p, open, FALSE) THEN 0
    ELSE LET q == SkipSpace(s, p + Len(open))
             named == {h \in 1..Len(HEADINGS) : HasPrefix(s, q, HEADINGS[h], TRUE)}
         IN  IF named = {} THEN 0
             ELSE LET r == SkipSpace(s, q + Len(HEADINGS[Min(named)]))
                  IN  IF HasPrefix(s, r, <<"=", "=">>, FALSE) THEN r + 2 ELSE 0
HeadingEnd(s, p, open) ==
    IF ~HasPrefix(s, p, open, FALSE) THEN 0
    ELSE LET q == SkipSpace(s, p + Len(open))
             named == {h \in 1..Len(HEADINGS) : HasPrefix(s, q, HEADINGS[h], TRUE)}
         IN  IF named = {} THEN 0
             ELSE LET r == SkipSpace(s, q + Len(HEADINGS[Min(named)]))
                  IN  IF HasPrefix(s, r, <<"=", "=">>, FALSE) THEN Len(s) + 1 ELSE 0

AlternativeEnd(s, p, alt) ==
    CASE alt.kind = "template" -> TemplateEnd(s, p, alt.open)
      [] alt.kind = "selfref"  -> SelfClosingRefEnd(s, p, alt.open)
      [] alt.kind = "ref"      -> RefEnd(s, p, alt.open)
      [] alt.kind = "comment"  -> CommentEnd(s, p, alt.open)
      [] alt.kind = "heading"  -> HeadingEnd(s, p, alt.open)

\* the end of the match of COMBINED_PATTERN at p (first alternative that matches), or 0
CombinedMatchAt(s, p) ==
    IF s[p] \notin {"{", "<", "="} THEN 0
    ELSE LET ok == {a \in 1..Len(COMBINED_PATTERN) : AlternativeEnd(s, p, COMBINED_PATTERN[a]) # 0}
         IN  IF ok = {} THEN 0 ELSE AlternativeEnd(s, p, COMBINED_PATTERN[Min(ok)])

\* re.sub / finditer: the non-overlapping matches found scanning s from index p
RECURSIVE CombinedMatches(_, _)
CombinedMatches(s, p) ==
    IF p > Len(s) THEN <<>>
    ELSE LET e == CombinedMatchAt(s, p)
         IN  IF e # 0 THEN <<[start |-> p, end |-> e]>> \o CombinedMatches(s, e)
             ELSE CombinedMatches(s, p + 1)

-----------------------------------------------------------------------------
(* PIPE_PATTERN  \[\[[^|\]]+\|([^|\]]+)\]\]  ; group 1 starts at index g1.  *)

\* the first index q >= from holding | or ] (Len(s) + 1 at the end): [^|\]]* is greedy
RECURSIVE SkipTarget(_, _)
SkipTarget(s, from) ==
    IF from <= Len(s) /\ s[from] \notin {"|", "]"} THEN SkipTarget(s, from + 1) ELSE from

\* the match of PIPE_PATTERN at p as [start, end, g1], or end = 0
PipeMatchAt(s, p) ==
    LET b == SkipTarget(s, p + 2)
        c == SkipTarget(s, b + 1)
    IN  IF /\ HasPrefix(s, p, <<"[", "[">>, FALSE)
           /\ b > p + 2 /\ b <= Len(s) /\ s[b] = "|"
           /\ c > b + 1 /\ HasPrefix(s, c, <<"]", "]">>, FALSE)
        THEN [start |-> p, end |-> c + 2, g1 |-> b + 1]
        ELSE [start |-> p, end |-> 0, g1 |-> 0]

RECURSIVE PipeMatches(_, _)
PipeMatches(s, p) ==
    IF p > Len(s) THEN <<>>
    ELSE LET m == PipeMatchAt(s, p)
         IN  IF m.end # 0 THEN <<m>> \o PipeMatches(s, m.end)
             ELSE PipeMatches(s, p + 1)

-----------------------------------------------------------------------------
(* filter_wikitext                                                         *)

\* re.sub(pattern, repl, s): the text between the matches ms is copied, the
\* k-th match is replaced by repls[k]
RECURSIVE ReSubFrom(_, _, _, _, _)
ReSubFrom(s, ms, repls, k, p) ==
    IF k > Len(ms) THEN SubSeq(s, p, Len(s))
    ELSE SubSeq(s, p, ms[k].start - 1) \o repls[k]
             \o ReSubFrom(s, ms, repls, k + 1, ms[k].end)

ReSub(s, ms, repls) == ReSubFrom(s, ms, repls, 1, 1)

\* lambda m: ' ' * (m.end() - m.start())
CombinedReplOffByOne(s, m) == Spaces(m.end - m.start - 1)
CombinedRepl(s, m) == Spaces(m.end - m.start)

\* lambda m: m.group(0)[:2] + ' ' * (m.start(1) - m.start(0) - 2)
\*              + m.group(0)[m.start(1) - m.start(0):]
PipeReplMaskAll(s, m) == Spaces(m.end - m.start)
PipeReplKeepTarget(s, m) == SubSeq(s, m.start, m.end - 1)
PipeRepl(s, m) ==
    LET group0 == SubSeq(s, m.start, m.end - 1)
        k == m.g1 - m.start
    IN  SubSeq(group0, 1, 2) \o Spaces(k - 2) \o SubSeq(group0, k + 1, Len(group0))

\* LETTER_FILTER_PATTERN [^\w\s.,!?;:'-] matches the character c
LetterFilterNone(c) == FALSE
LETTER_FILTER_PATTERN(c) ==
    ~(IsWord(c) \/ IsSpace(c) \/ c \in {".", ",", "!", "?", ";", ":", "'", "-"})

\* the three substitutions of filter_wikitext, one after the other
SubCombined(s) ==
    LET ms == CombinedMatches(s, 1)
    IN  ReSub(s, ms, [k \in 1..Len(ms) |-> CombinedRepl(s, ms[k])])
SubPipe(s) ==
    LET ms == PipeMatches(s, 1)
    IN  ReSub(s, ms, [k \in 1..Len(ms) |-> PipeRepl(s, ms[k])])
SubLetters(s) == [k \in 1..Len(s) |-> IF LETTER_FILTER_PATTERN(s[k]) THEN " " ELSE s[k]]

filter_wikitext(w) ==
    IF w = None THEN <<>> ELSE SubLetters(SubPipe(SubCombined(w)))

-----------------------------------------------------------------------------
(* Input texts: concatenations of at most MaxFragments fragments of one    *)
(* family of wikitext fragments.                                           *)

MaxFragments == 4

RECURSIVE Concat(_)
Concat(fs) == IF fs = <<>> THEN <<>> ELSE Head(fs) \o Concat(Tail(fs))

TemplateFragments == {<<"{", "{", "c", "i", "t", "e">>, <<"{", "{", "S", "f", "n">>, <<"}", "}">>, <<"}">>, <<"a">>, <<" ", "B">>}
RefFragments == {<<"<", "r", "e", "f">>, <<"<", "R", "E", "F", " ", "n">>, <<"/", ">">>, <<">">>, <<"<", "/", "r", "e", "f", ">">>, <<"a">>}
CommentFragments == {<<"<", "!", "-", "-">>, <<"-", "-", ">">>, <<"}">>, <<"{", "{", "c", "i", "t", "e">>, <<"}", "}">>, <<"=", "=", "S", "e", "e", " ", "a", "l", "s", "o", "=", "=">>, <<"a">>}
HeadingFragments == {<<"=", "=">>, <<" ">>, <<"E", "x", "t", "e", "r", "n", "a", "l", " ", "L", "i", "n", "k", "s">>, <<"f", "u", "r", "t", "h", "e", "r", " ", "r", "e", "a", "d", "i", "n", "g", "\n">>, <<"a">>, <<"<", "!", "-", "-", "x", "-", "-", ">">>}
LinkFragments == {<<"[", "[">>, <<"a">>, <<"|", "b">>, <<"]", "]">>, <<"|">>, <<"<", "!", "-", "-", "x", "-", "-", ">">>, <<"[", "[", "a">>}
CharFragments == {<<"a">>, <<"EACUTE">>, <<"_">>, <<"1">>, <<"\n">>, <<"'">>, <<"#">>, <<"eacute", ".">>}

FragmentFamilies == <<TemplateFragments, RefFragments, CommentFragments,
                      HeadingFragments, LinkFragments, CharFragments>>

\* the texts of n fragments of a family
Texts(family, n) == {Concat(fs) : fs \in [1..n -> family]}

\* no citation extraction is running
CiteIdle == raw_name_parts = {} /\ name_parts = {}

\* no batch is running
BatchIdle ==
    /\ pipeline = "none" /\ dump = <<>> /\ revision_mapping = {}
    /\ page_no = 0 /\ rev_no = 0 /\ reference_list = {}
    /\ scanned = {} /\ written = {} /\ errors = {}

\* the scanner is not running
ScanIdle ==
    /\ name_set = {} /\ quotes = FALSE /\ results = <<>> /\ i = 0 /\ iterations = 0
    /\ merge_input = <<>> /\ merged = <<>> /\ returned = <<>>

-----------------------------------------------------------------------------
(* filter_wikitext, one substitution at a time                             *)

MaskInit ==
    /\ pc = "filter"
    /\ \/ wikitext = None
       \/ \E f \in 1..Len(FragmentFamilies) : \E n \in 0..MaxFragments :
              wikitext \in Texts(FragmentFamilies[f], n)
    /\ processed_text = <<>>
    /\ remasked = <<>>
    /\ ScanIdle
    /\ CiteIdle
    /\ BatchIdle

\* if wikitext is None: return ""
FilterNone ==
    /\ pc = "filter" /\ wikitext = None
    /\ processed_text' = <<>>
    /\ pc' = "filtered"
    /\ UNCHANGED <<wikitext, remasked, scanVars, citeVars, batchVars>>

\* processed_text = re.sub(COMBINED_PATTERN, ..., wikitext)
FilterCombined ==
    /\ pc = "filter" /\ wikitext # None
    /\ processed_text' = SubCombined(wikitext)
    /\ pc' = "combined"
    /\ UNCHANGED <<wikitext, remasked, scanVars, citeVars, batchVars>>

\* processed_text = re.sub(PIPE_PATTERN, ..., processed_text)
FilterPipe ==
    /\ pc = "combined"
    /\ processed_text' = SubPipe(processed_text)
    /\ pc' = "piped"
    /\ UNCHANGED <<wikitext, remasked, scanVars, citeVars, batchVars>>

\* processed_text = re.sub(LETTER_FILTER_PATTERN, " ", processed_text); return
FilterLetters ==
    /\ pc = "piped"
    /\ processed_text' = SubLetters(processed_text)
    /\ pc' = "filtered"
    /\ UNCHANGED <<wikitext, remasked, scanVars, citeVars, batchVars>>

\* filter_wikitext called on the text it returned
FilterAgain ==
    /\ pc = "filtered"
    /\ remasked' = filter_wikitext(processed_text)
    /\ pc' = "refiltered"
    /\ UNCHANGED <<wikitext, processed_text, scanVars, citeVars, batchVars>>

MaskNext == FilterNone \/ FilterCombined \/ FilterPipe \/ FilterLetters \/ FilterAgain

MaskSpec == MaskInit /\ [][MaskNext]_vars

-----------------------------------------------------------------------------
\* C1: filter_wikitext preserves the length of its input, and so does each
\* of its three substitutions: after every step the text has the length of
\* the input.
LengthPreserved ==
    (wikitext # None /\ pc \in {"combined", "piped", "filtered", "refiltered"})
        => Len(processed_text) = Len(wikitext)

\* a text in which all three substitutions changed something has been filtered
LengthPreservedWitness ==
    /\ pc = "filtered" /\ wikitext # None
    /\ CombinedMatches(wikitext, 1) # <<>>
    /\ PipeMatches(SubCombined(wikitext), 1) # <<>>
    /\ \E k \in 1..Len(wikitext) : LETTER_FILTER_PATTERN(SubPipe(SubCombined(wikitext))[k])
    /\ Len(processed_text) = Len(wikitext)

\* the indices covered by the matches ms
Covered(ms) == UNION {ms[k].start .. (ms[k].end - 1) : k \in 1..Len(ms)}

\* the indices of the link target and the pipe of the piped links ms
TargetPortion(ms) == UNION {(ms[k].start + 2) .. (ms[k].g1 - 1) : k \in 1..Len(ms)}

\* a word character, whitespace or one of . , ! ? ; : ' -
KeptCharacter(c) ==
    \/ c \in Letters \/ c \in Digits \/ c = "_"
    \/ c \in {" ", "\n", "\t"}
    \/ c \in {".", ",", "!", "?", ";", ":", "'", "-"}

\* C2: every character of filter_wikitext(s) is the character of s at the
\* same index or a space; and a kept character (word character, whitespace
\* or . , ! ? ; : ' -) that lies in no match of the combined pattern and in
\* no masked target portion of a piped link is unchanged.
IdentityOutsideMasks ==
    (pc = "filtered" /\ wikitext # None) =>
        LET markup == Covered(CombinedMatches(wikitext, 1))
            target == TargetPortion(PipeMatches(SubCombined(wikitext), 1))
        IN  /\ Len(processed_text) = Len(wikitext)
            /\ \A k \in 1..Len(wikitext) :
                  /\ processed_text[k] \in {wikitext[k], " "}
                  /\ (k \notin markup /\ k \notin target /\ KeptCharacter(wikitext[k]))
                        => processed_text[k] = wikitext[k]

\* a filtered piped link whose display text is kept and whose target is masked
IdentityOutsideMasksWitness ==
    /\ pc = "filtered" /\ wikitext # None
    /\ PipeMatches(SubCombined(wikitext), 1) # <<>>
    /\ \E k \in 1..Len(wikitext) :
          /\ k \notin TargetPortion(PipeMatches(SubCombined(wikitext), 1))
          /\ wikitext[k] \in Letters /\ processed_text[k] = wikitext[k]
    /\ \E k \in TargetPortion(PipeMatches(SubCombined(wikitext), 1)) :
          wikitext[k] \in Letters /\ processed_text[k] = " "

\* C3: masking is idempotent: filter_wikitext(filter_wikitext(s)) equals
\* filter_wikitext(s).
MaskIdempotent ==
    (pc = "refiltered" /\ wikitext # None) => remasked = processed_text

\* a text the first pass changed has been filtered a second time
MaskIdempotentWitness ==
    /\ pc = "refiltered" /\ wikitext # None
    /\ processed_text # wikitext
    /\ \E k \in 1..Len(processed_text) : processed_text[k] \in Letters
    /\ remasked = processed_text

-----------------------------------------------------------------------------
(* find_names_in_wikitext, merge_adjacent_tokens_in_result_list and        *)
(* exclude_uniform_case_tokens.  A match is a record [word, positionStart, *)
(* positionEnd] with zero-based inclusive offsets; a word is a text.       *)

\* NAME_PATTERN [^\W\d_]+ and NAME_PATTERN_WITH_QUOTES [^\W\d_'\"]+ : the
\* characters of a run
NAME_PATTERN(c) == ~(~IsWord(c) \/ c \in Digits \/ c = "_")
NAME_PATTERN_WITH_QUOTES(c) == ~(~IsWord(c) \/ c \in Digits \/ c = "_" \/ c \in {"'", "\""})

InRun(c, q) == IF q THEN NAME_PATTERN_WITH_QUOTES(c) ELSE NAME_PATTERN(c)

\* the end (exclusive) of the run of name characters that starts at index p
RECURSIVE RunEnd(_, _, _)
RunEnd(s, p, q) ==
    IF p <= Len(s) /\ InRun(s[p], q) THEN RunEnd(s, p + 1, q) ELSE p

\* pattern.finditer(processed_text): the maximal runs from index p on, in text order
RECURSIVE NameMatches(_, _, _)
NameMatches(s, p, q) ==
    IF p > Len(s) THEN <<>>
    ELSE IF InRun(s[p], q)
         THEN <<[start |-> p, end |-> RunEnd(s, p, q)]>> \o NameMatches(s, RunEnd(s, p, q), q)
         ELSE NameMatches(s, p + 1, q)

\* word = match.group(); start = match.start(); end = match.end() - 1
MatchTokenEndExclusive(s, m) ==
    [word |-> SubSeq(s, m.start, m.end - 1), positionStart |-> m.start - 1,
     positionEnd |-> m.end - 1]
MatchToken(s, m) ==
    [word |-> SubSeq(s, m.start, m.end - 1), positionStart |-> m.start - 1,
     positionEnd |-> m.end - 2]

\* results.append(...)
AppendPrepending(rs, r) == <<r>> \o rs
AppendResult(rs, r) == Append(rs, r)

\* the loop of find_names_in_wikitext over the matches ms[k..]
RECURSIVE ScanFrom(_, _, _, _, _)
ScanFrom(s, ms, k, names, rs) ==
    IF k > Len(ms) THEN rs
    ELSE LET r == MatchToken(s, ms[k])
         IN  ScanFrom(s, ms, k + 1, names,
                      IF r.word \in names THEN AppendResult(rs, r) ELSE rs)

\* str.split(): the maximal runs of characters that are not whitespace
RECURSIVE SplitFrom(_, _, _)
SplitFrom(w, p, cur) ==
    IF p > Len(w) THEN (IF cur = <<>> THEN <<>> ELSE <<cur>>)
    ELSE IF IsSpace(w[p])
         THEN (IF cur = <<>> THEN <<>> ELSE <<cur>>) \o SplitFrom(w, p + 1, <<>>)
         ELSE SplitFrom(w, p + 1, Append(cur, w[p]))

Split(w) == SplitFrom(w, 1, <<>>)

\* str.islower() / str.isupper(): a cased character, and none of the other case
islower(w) == (\E k \in 1..Len(w) : w[k] \in Lower) /\ (\A k \in 1..Len(w) : w[k] \notin Upper)
isupper(w) == (\E k \in 1..Len(w) : w[k] \in Upper) /\ (\A k \in 1..Len(w) : w[k] \notin Lower)

\* current["positionEnd"] + 2 == next_token["positionStart"]
RuleAGapThree(current, next_token) == current.positionEnd + 3 = next_token.positionStart
RuleA(current, next_token) == current.positionEnd + 2 = next_token.positionStart

\* len(current_words[-1]) == 1 and current_words[-1].isupper()
\*     and current["positionEnd"] + 3 == next_token["positionStart"]
RuleB(current, next_token) ==
    LET current_words == Split(current.word)
        last == current_words[Len(current_words)]
    IN  /\ Len(last) = 1
        /\ isupper(last)
        /\ current.positionEnd + 3 = next_token.positionStart

\* current["word"] += " " + next_token["word"]; current["positionEnd"] = ...
MergeKeepingEnd(current, next_token) ==
    [current EXCEPT !.word = current.word \o <<" ">> \o next_token.word]
MergeTokens(current, next_token) ==
    [current EXCEPT !.word = current.word \o <<" ">> \o next_token.word,
                    !.positionEnd = next_token.positionEnd]

\* results.pop(k) for the one-based index k
PopNothing(rs, k) == rs
Pop(rs, k) == SubSeq(rs, 1, k - 1) \o SubSeq(rs, k + 1, Len(rs))

\* all(token.islower() ...) or all(token.isupper() ...) over item["word"].split()
UniformOnlyLower(item) ==
    LET tokens == Split(item.word)
    IN  \A k \in 1..Len(tokens) : islower(tokens[k])
Uniform(item) ==
    LET tokens == Split(item.word)
    IN  \/ \A k \in 1..Len(tokens) : islower(tokens[k])
        \/ \A k \in 1..Len(tokens) : isupper(tokens[k])

RECURSIVE exclude_uniform_case_tokens(_)
exclude_uniform_case_tokens(rs) ==
    IF rs = <<>> THEN <<>>
    ELSE (IF ~Uniform(Head(rs)) THEN <<Head(rs)>> ELSE <<>>)
             \o exclude_uniform_case_tokens(Tail(rs))

\* the bound of the merge loop's iteration counter: one list needs fewer
MaxIterations == 8

\* processed_text = filter_wikitext(wikitext); the finditer loop
FindScan ==
    /\ pc = "find"
    /\ processed_text' = filter_wikitext(wikitext)
    /\ results' = ScanFrom(processed_text', NameMatches(processed_text', 1, quotes), 1,
                           name_set, <<>>)
    /\ merge_input' = results'
    /\ i' = 0
    /\ iterations' = 0
    /\ pc' = "merge"
    /\ UNCHANGED <<wikitext, remasked, name_set, quotes, merged, returned, citeVars, batchVars>>

\* while i < len(results) - 1 ... first if: merge, pop, continue
MergeRuleAThenAdvance ==
    /\ pc = "merge" /\ i < Len(results) - 1 /\ iterations < MaxIterations
    /\ RuleA(results[i + 1], results[i + 2])
    /\ results' = Pop([results EXCEPT ![i + 1] = MergeTokens(results[i + 1], results[i + 2])],
                      i + 2)
    /\ i' = i + 1
    /\ iterations' = iterations + 1
    /\ UNCHANGED <<pc, maskVars, name_set, quotes, merge_input, merged, returned, citeVars, batchVars>>
MergeRuleA ==
    /\ pc = "merge" /\ i < Len(results) - 1 /\ iterations < MaxIterations
    /\ RuleA(results[i + 1], results[i + 2])
    /\ results' = Pop([results EXCEPT ![i + 1] = MergeTokens(results[i + 1], results[i + 2])],
                      i + 2)
    /\ iterations' = iterations + 1
    /\ UNCHANGED <<pc, maskVars, name_set, quotes, i, merge_input, merged, returned, citeVars, batchVars>>

\* second if: merge, pop, continue
MergeRuleB ==
    /\ pc = "merge" /\ i < Len(results) - 1 /\ iterations < MaxIterations
    /\ ~RuleA(results[i + 1], results[i + 2])
    /\ RuleB(results[i + 1], results[i + 2])
    /\ results' = Pop([results EXCEPT ![i + 1] = MergeTokens(results[i + 1], results[i + 2])],
                      i + 2)
    /\ iterations' = iterations + 1
    /\ UNCHANGED <<pc, maskVars, name_set, quotes, i, merge_input, merged, returned, citeVars, batchVars>>

\* i += 1
MergeAdvance ==
    /\ pc = "merge" /\ i < Len(results) - 1 /\ iterations < MaxIterations
    /\ ~RuleA(results[i + 1], results[i + 2])
    /\ ~RuleB(results[i + 1], results[i + 2])
    /\ i' = i + 1
    /\ iterations' = iterations + 1
    /\ UNCHANGED <<pc, maskVars, name_set, quotes, results, merge_input, merged, returned, citeVars, batchVars>>

\* return results
MergeReturn ==
    /\ pc = "merge" /\ ~(i < Len(results) - 1)
    /\ merged' = results
    /\ pc' = "exclude"
    /\ UNCHANGED <<maskVars, name_set, quotes, results, i, iterations, merge_input, returned, citeVars, batchVars>>

\* results = exclude_uniform_case_tokens(...); return results
Exclude ==
    /\ pc = "exclude"
    /\ returned' = exclude_uniform_case_tokens(merged)
    /\ pc' = "done"
    /\ UNCHANGED <<maskVars, name_set, quotes, results, i, iterations, merge_input, merged, citeVars, batchVars>>

(* Inputs of find_names_in_wikitext: texts of at most MaxNameFragments      *)
(* fragments, and vocabularies of name tokens.                             *)

MaxNameFragments == 3

NameFragments == {<<"J", "a", "n", "e", " ">>, <<"J", ".", " ">>, <<"S", "m", "i", "t", "h">>, <<"a", "n", "d", " ">>, <<"t", "h", "e", ",", " ">>, <<"A", "N", "D", " ">>, <<"T", "H", "E">>,
                  <<"'">>, <<"[", "[", "x", "|", "J", "a", "n", "e", "]", "]">>, <<"{", "{", "c", "i", "t", "e", " ", "A", "l", "}", "}">>}

NameTexts(n) == {Concat(fs) : fs \in [1..n -> NameFragments]}

Vocabularies == {{<<"J", "a", "n", "e">>, <<"S", "m", "i", "t", "h">>, <<"J">>, <<"a", "n", "d">>, <<"t", "h", "e">>, <<"A", "N", "D">>, <<"T", "H", "E">>, <<"A", "l">>},
                 {<<"J", "a", "n", "e">>, <<"J">>, <<"x">>}}

FindInit ==
    /\ pc = "find"
    /\ \E n \in 0..MaxNameFragments : wikitext \in NameTexts(n)
    /\ name_set \in Vocabularies
    /\ quotes \in BOOLEAN
    /\ processed_text = <<>> /\ remasked = <<>>
    /\ results = <<>> /\ i = 0 /\ iterations = 0
    /\ merge_input = <<>> /\ merged = <<>> /\ returned = <<>>
    /\ CiteIdle
    /\ BatchIdle

FindNext == FindScan \/ MergeRuleA \/ MergeRuleB \/ MergeAdvance \/ MergeReturn \/ Exclude

FindSpec == FindInit /\ [][FindNext]_vars

-----------------------------------------------------------------------------
(* merge_adjacent_tokens_in_result_list called on a match list: at most     *)
(* MaxMatches tokens laid out from a first offset, consecutive tokens       *)
(* separated by one to three characters, as the scanner produces them.      *)

MaxMatches == 3

MergeWords == {<<"J", "a", "n", "e">>, <<"S", "m", "i", "t", "h">>, <<"J">>, <<"a", "n", "d">>, <<"T", "H", "E">>}
FirstOffsets == {0, 10}
Separations == {1, 2, 3}

\* the tokens ws[k..] laid out from offset start, seps[k] characters after ws[k]
RECURSIVE Layout(_, _, _, _)
Layout(ws, seps, k, start) ==
    IF k > Len(ws) THEN <<>>
    ELSE LET end == start + Len(ws[k]) - 1
         IN  <<[word |-> ws[k], positionStart |-> start, positionEnd |-> end]>>
                 \o (IF k = Len(ws) THEN <<>> ELSE Layout(ws, seps, k + 1, end + seps[k] + 1))

\* the lists of n matches
MatchLists(n) ==
    {Layout(ws, seps, 1, o) :
        ws \in [1..n -> MergeWords], seps \in [1..(n - 1) -> Separations],
        o \in FirstOffsets}

MergeInit ==
    /\ pc = "merge"
    /\ \E n \in 0..MaxMatches : merge_input \in MatchLists(n)
    /\ results = merge_input
    /\ i = 0 /\ iterations = 0
    /\ merged = <<>> /\ returned = <<>>
    /\ name_set = {} /\ quotes = FALSE
    /\ wikitext = <<>> /\ processed_text = <<>> /\ remasked = <<>>
    /\ CiteIdle
    /\ BatchIdle

MergeNext == MergeRuleA \/ MergeRuleB \/ MergeAdvance \/ MergeReturn \/ Exclude

MergeSpec == MergeInit /\ [][MergeNext]_vars

-----------------------------------------------------------------------------
\* the first and the last space-delimited word of a match's word
FirstWord(w) == Split(w)[1]
LastWord(w) == Split(w)[Len(Split(w))]

\* the offsets of the match r index the text s
IndexesText(r, s) ==
    /\ 0 <= r.positionStart
    /\ r.positionStart <= r.positionEnd
    /\ r.positionEnd < Len(s)
    /\ HasPrefix(s, r.positionStart + 1, FirstWord(r.word), FALSE)
    /\ HasPrefix(s, r.positionEnd + 2 - Len(LastWord(r.word)), LastWord(r.word), FALSE)

\* C4: every match find_names_in_wikitext returns has
\* 0 <= positionStart <= positionEnd < len(text), the original (unmasked)
\* text starting at positionStart begins with the match's first word and the
\* original text ending at positionEnd ends with its last word.
OffsetsIndexOriginalText ==
    /\ pc \in {"exclude", "done"} =>
           \A k \in 1..Len(merged) : IndexesText(merged[k], wikitext)
    /\ pc = "done" =>
           \A k \in 1..Len(returned) : IndexesText(returned[k], wikitext)

\* a merged two-word match is returned from a text that starts with masked markup
OffsetsIndexOriginalTextWitness ==
    /\ pc = "done"
    /\ CombinedMatches(wikitext, 1) # <<>>
    /\ \E k \in 1..Len(returned) :
          /\ returned[k].positionStart > 0
          /\ Len(Split(returned[k].word)) = 2
          /\ IndexesText(returned[k], wikitext)

Ordered(rs) == \A k \in 1..(Len(rs) - 1) : rs[k].positionStart <= rs[k + 1].positionStart

\* C5: the match list of find_names_in_wikitext is ordered by positionStart
\* before merging, while and after merging, and after case filtering.
ResultsInTextOrder ==
    Ordered(merge_input) /\ Ordered(results) /\ Ordered(merged) /\ Ordered(returned)

\* at least two matches are returned after a merge shortened the list
ResultsInTextOrderWitness ==
    /\ pc = "done"
    /\ Len(returned) >= 2
    /\ Len(merged) < Len(merge_input)
    /\ Ordered(returned)

\* every letter of every space-delimited word of w is lowercase (uppercase)
OnlyLowercaseWords(w) ==
    \A k \in 1..Len(Split(w)) :
        /\ \A c \in 1..Len(Split(w)[k]) : Split(w)[k][c] \in Letters => Split(w)[k][c] \in Lower
        /\ \E c \in 1..Len(Split(w)[k]) : Split(w)[k][c] \in Letters
OnlyUppercaseWords(w) ==
    \A k \in 1..Len(Split(w)) :
        /\ \A c \in 1..Len(Split(w)[k]) : Split(w)[k][c] \in Letters => Split(w)[k][c] \in Upper
        /\ \E c \in 1..Len(Split(w)[k]) : Split(w)[k][c] \in Letters

MixedCase(r) == ~OnlyLowercaseWords(r.word) /\ ~OnlyUppercaseWords(r.word)

\* C7: exclude_uniform_case_tokens returns, in their order, exactly the
\* entries whose words are neither all lowercase nor all uppercase, so
\* find_names_in_wikitext returns no entry of only lowercase or only
\* uppercase words.
CaseFilterExact ==
    pc = "done" =>
        /\ returned = SelectSeq(merged, MixedCase)
        /\ \A k \in 1..Len(returned) :
              ~OnlyLowercaseWords(returned[k].word) /\ ~OnlyUppercaseWords(returned[k].word)

\* "and the" was merged and dropped, and a mixed-case name was kept
CaseFilterExactWitness ==
    /\ pc = "done"
    /\ \E k \in 1..Len(merged) : merged[k].word = <<"a", "n", "d", " ", "t", "h", "e">>
    /\ \E k \in 1..Len(returned) : returned[k].word = <<"J", "a", "n", "e">>
    /\ \A k \in 1..Len(returned) : returned[k].word # <<"a", "n", "d", " ", "t", "h", "e">>

-----------------------------------------------------------------------------
SpecExampleInput ==
    << [word |-> <<"J", "a", "n", "e">>, positionStart |-> 10, positionEnd |-> 13],
       [word |-> <<"S", "m", "i", "t", "h">>, positionStart |-> 16, positionEnd |-> 20] >>

AdjacentExampleInput ==
    << [word |-> <<"J", "a", "n", "e">>, positionStart |-> 10, positionEnd |-> 13],
       [word |-> <<"S", "m", "i", "t", "h">>, positionStart |-> 15, positionEnd |-> 19] >>

\* C6 as stated: the list [Jane 10..13, Smith 16..20] is merged into the
\* single entry Jane Smith 10..20.
MergeExampleAsStated ==
    (pc \in {"exclude", "done"} /\ merge_input = SpecExampleInput) =>
        merged = <<[word |-> <<"J", "a", "n", "e", " ", "S", "m", "i", "t", "h">>, positionStart |-> 10, positionEnd |-> 20]>>

\* C6 (amended): the list [Jane 10..13, Smith 15..19], one separator
\* character apart, is merged into the single entry Jane Smith 10..19; the
\* list [Jane 10..13, Smith 16..20] is returned as it is.
MergeExampleAdjacent ==
    /\ (pc \in {"exclude", "done"} /\ merge_input = AdjacentExampleInput) =>
           merged = <<[word |-> <<"J", "a", "n", "e", " ", "S", "m", "i", "t", "h">>, positionStart |-> 10, positionEnd |-> 19]>>
    /\ (pc \in {"exclude", "done"} /\ merge_input = SpecExampleInput) =>
           merged = SpecExampleInput

\* the merge routine has returned for the adjacent example
MergeExampleAdjacentWitness ==
    /\ pc = "exclude"
    /\ merge_input = AdjacentExampleInput
    /\ merged = <<[word |-> <<"J", "a", "n", "e", " ", "S", "m", "i", "t", "h">>, positionStart |-> 10, positionEnd |-> 19]>>

-----------------------------------------------------------------------------
(* Citation author fields: AUTHOR_PATTERN, PARENTHESES_PATTERN,            *)
(* FILTER_PATTERN, extract_raw_names_from_citations and                    *)
(* extract_names_from_citations.                                           *)

\* the alternatives of AUTHOR_PATTERN in their order; numbered: followed by \d*
AUTHOR_PATTERN == <<
    [key |-> <<"a", "u", "t", "h", "o", "r">>,       numbered |-> TRUE],
    [key |-> <<"a", "u", "t", "h", "o", "r", "-", "l", "i", "n", "k">>,  numbered |-> TRUE],
    [key |-> <<"a", "u", "t", "h", "o", "r", "l", "i", "n", "k">>,   numbered |-> TRUE],
    [key |-> <<"v", "a", "u", "t", "h", "o", "r", "s">>,     numbered |-> FALSE],
    [key |-> <<"c", "o", "a", "u", "t", "h", "o", "r", "s">>,    numbered |-> FALSE],
    [key |-> <<"s", "u", "r", "n", "a", "m", "e">>,      numbered |-> TRUE],
    [key |-> <<"a", "u", "t", "h", "o", "r", "-", "l", "a", "s", "t">>,  numbered |-> TRUE],
    [key |-> <<"a", "u", "t", "h", "o", "r", "l", "a", "s", "t">>,   numbered |-> TRUE],
    [key |-> <<"l", "a", "s", "t">>,         numbered |-> TRUE],
    [key |-> <<"g", "i", "v", "e", "n">>,        numbered |-> TRUE],
    [key |-> <<"a", "u", "t", "h", "o", "r", "-", "f", "i", "r", "s", "t">>, numbered |-> TRUE],
    [key |-> <<"a", "u", "t", "h", "o", "r", "f", "i", "r", "s", "t">>,  numbered |-> TRUE],
    [key |-> <<"f", "i", "r", "s", "t">>,        numbered |-> TRUE] >>

Max(S) == CHOOSE x \in S : \A y \in S : x >= y

\* \d* : the first index q >= from that holds no digit
RECURSIVE SkipDigits(_, _)
SkipDigits(s, from) ==
    IF from <= Len(s) /\ s[from] \in Digits THEN SkipDigits(s, from + 1) ELSE from

\* [^|}\n]+ is greedy: the first index q >= from that holds | } or a newline
RECURSIVE SkipField(_, _)
SkipField(s, from) ==
    IF from <= Len(s) /\ s[from] \notin {"|", "}", "\n"} THEN SkipField(s, from + 1) ELSE from

\* \b before (at) index p: exactly one of the characters p - 1 and p is a word character
WordBoundary(s, p) ==
    (p - 1 >= 1 /\ p - 1 <= Len(s) /\ IsWord(s[p - 1])) # (p >= 1 /\ p <= Len(s) /\ IsWord(s[p]))

\* \bkey\d*\s*=\s*([^|}\n]+) at index p: the group as [start, end), or end = 0.
\* \s* after = takes all whitespace; when no field character follows it gives
\* whitespace back until the group can start.
AuthorAlternativeAt(s, p, alt) ==
    LET q == IF alt.numbered THEN SkipDigits(s, p + Len(alt.key)) ELSE p + Len(alt.key)
        eq == SkipSpace(s, q)
        r == SkipSpace(s, eq + 1)
        back == {k \in (eq + 1)..(r - 1) : s[k] # "\n"}
    IN  IF ~(WordBoundary(s, p) /\ HasPrefix(s, p, alt.key, TRUE)
               /\ eq <= Len(s) /\ s[eq] = "=")
        THEN [start |-> 0, end |-> 0]
        ELSE IF SkipField(s, r) > r THEN [start |-> r, end |-> SkipField(s, r)]
        ELSE IF back # {} THEN [start |-> Max(back), end |-> SkipField(s, Max(back))]
        ELSE [start |-> 0, end |-> 0]

\* the group of the first alternative of AUTHOR_PATTERN that matches at p
AuthorMatchAt(s, p) ==
    LET ok == {a \in 1..Len(AUTHOR_PATTERN) : AuthorAlternativeAt(s, p, AUTHOR_PATTERN[a]).end # 0}
    IN  IF ok = {} THEN [start |-> 0, end |-> 0]
        ELSE AuthorAlternativeAt(s, p, AUTHOR_PATTERN[Min(ok)])

\* AUTHOR_PATTERN.findall(wikitext): the non-empty group of every match, in text order
RECURSIVE AuthorFields(_, _)
AuthorFields(s, p) ==
    IF p > Len(s) THEN <<>>
    ELSE LET m == AuthorMatchAt(s, p)
         IN  IF m.end # 0 THEN <<SubSeq(s, m.start, m.end - 1)>> \o AuthorFields(s, m.end)
             ELSE AuthorFields(s, p + 1)

\* PARENTHESES_PATTERN \s*\(.*?\) at index p: the end (exclusive) of the match, or 0
ParenthesesMatchAt(f, p) ==
    LET q == SkipSpace(f, p)
        c == FirstChar(f, q + 1, ")")
    IN  IF q <= Len(f) /\ f[q] = "(" /\ c # 0 /\ \A k \in (q + 1)..(c - 1) : f[k] # "\n"
        THEN c + 1 ELSE 0

\* PARENTHESES_PATTERN.sub('', name_field)
RECURSIVE RemoveParentheses(_, _)
RemoveParentheses(f, p) ==
    IF p > Len(f) THEN <<>>
    ELSE IF ParenthesesMatchAt(f, p) # 0 THEN RemoveParentheses(f, ParenthesesMatchAt(f, p))
    ELSE <<f[p]>> \o RemoveParentheses(f, p + 1)

\* str.strip()
RECURSIVE Strip(_)
Strip(f) ==
    IF f = <<>> THEN f
    ELSE IF IsSpace(f[1]) THEN Strip(Tail(f))
    ELSE IF IsSpace(f[Len(f)]) THEN Strip(SubSeq(f, 1, Len(f) - 1))
    ELSE f

\* name_field = PARENTHESES_PATTERN.sub('', name_field).strip()
CleanField(f) == Strip(RemoveParentheses(f, 1))

AsciiLetters == AsciiLower \cup AsciiUpper

\* the ends (exclusive) of the matches of (?:\.[a-zA-Z]{2,})+ that start at index d
RECURSIVE DomainEnds(_, _)
DomainEnds(f, d) ==
    LET one == {e \in (d + 3)..(Len(f) + 1) :
                   f[d] = "." /\ \A k \in (d + 1)..(e - 1) : f[k] \in AsciiLetters}
    IN  IF d > Len(f) THEN {} ELSE one \cup UNION {DomainEnds(f, e) : e \in one}

\* \b(?:https?://)?(?:www\.)?[a-z][a-zA-Z0-9-]*(?:\.[a-zA-Z]{2,})+\b somewhere in f
LooksLikeLink(f) ==
    \E b \in 1..Len(f) :
        /\ WordBoundary(f, b)
        /\ \E scheme \in {<<>>, <<"h", "t", "t", "p", ":", "/", "/">>, <<"h", "t", "t", "p", "s", ":", "/", "/">>} : \E www \in {<<>>, <<"w", "w", "w", ".">>} :
              LET q == b + Len(scheme) + Len(www)
              IN  /\ HasPrefix(f, b, scheme, FALSE)
                  /\ HasPrefix(f, b + Len(scheme), www, FALSE)
                  /\ q <= Len(f) /\ f[q] \in AsciiLower
                  /\ \E d \in (q + 1)..Len(f) :
                        /\ \A k \in (q + 1)..(d - 1) : f[k] \in AsciiLetters \cup Digits \cup {"-"}
                        /\ \E e \in DomainEnds(f, d) : WordBoundary(f, e)

\* the alternatives of FILTER_PATTERN, tried by FILTER_PATTERN.match(name_field)
OnlyAsciiLowerOrNonWord(f) == f # <<>> /\ \A k \in 1..Len(f) : f[k] \in AsciiLower \/ ~IsWord(f[k])
OnlyAsciiUpperOrNonWord(f) == f # <<>> /\ \A k \in 1..Len(f) : f[k] \in AsciiUpper \/ ~IsWord(f[k])
HasDigit(f) == \E k \in 1..Len(f) : f[k] \in Digits
IsHtmlComment(f) == HasPrefix(f, 1, <<"<", "!", "-", "-">>, FALSE) /\ FirstLiteral(f, 5, <<"-", "-", ">">>, FALSE) # 0
HasHtmlEntity(f) ==
    \E a \in 1..Len(f) : \E e \in (a + 2)..Len(f) :
        f[a] = "&" /\ f[e] = ";" /\ \A k \in (a + 1)..(e - 1) : f[k] \in AsciiLower

FILTER_PATTERN(f) ==
    \/ OnlyAsciiLowerOrNonWord(f)
    \/ OnlyAsciiUpperOrNonWord(f)
    \/ HasDigit(f)
    \/ IsHtmlComment(f)
    \/ HasHtmlEntity(f)
    \/ LooksLikeLink(f)

\* NAME_PATTERN.findall(name_field)
NameTokens(f) ==
    LET ms == NameMatches(f, 1, FALSE)
    IN  {SubSeq(f, ms[k].start, ms[k].end - 1) : k \in 1..Len(ms)}

\* the cleaned author fields of the text that FILTER_PATTERN does not reject
KeptFields(w) ==
    LET fs == AuthorFields(w, 1)
    IN  {CleanField(fs[k]) : k \in {j \in 1..Len(fs) : ~FILTER_PATTERN(CleanField(fs[j]))}}

extract_raw_names_from_citations(w) ==
    IF w = None THEN {} ELSE KeptFields(w)

extract_names_from_citations(w) ==
    IF w = None THEN {} ELSE UNION {NameTokens(f) : f \in KeptFields(w)}

(* Input texts: a citation opened up to a field key, at most               *)
(* MaxValueFragments fragments of field value, and the closing braces.     *)

MaxValueFragments == 3

CiteHeads == {<<"{", "{", "c", "i", "t", "e", "|", "l", "a", "s", "t", "=">>, <<"{", "{", "c", "i", "t", "e", " ", "|", "F", "i", "r", "s", "t", "2", " ", "=", " ">>, <<"{", "{", "c", "i", "t", "e", "|", "a", "u", "t", "h", "o", "r", "-", "l", "a", "s", "t", "=">>, <<"x", "l", "a", "s", "t", "=">>}
ValueFragments == {<<"s", "m", "i", "t", "h">>, <<"A", "l">>, <<"B">>, <<" ">>, <<"(", "x", ")">>, <<"eacute">>, <<"_">>, <<".">>, <<"2">>,
                   <<"w", ".", "i", "o">>, <<"|", "f", "i", "r", "s", "t", "=", "B", "o">>}

\* the citations with a value of n fragments
CiteTexts(n) ==
    {h \o Concat(fs) \o <<"}", "}">> : h \in CiteHeads, fs \in [1..n -> ValueFragments]}

CiteInit ==
    /\ pc = "cite"
    /\ \/ wikitext = None
       \/ \E n \in 0..MaxValueFragments : wikitext \in CiteTexts(n)
    /\ processed_text = <<>> /\ remasked = <<>>
    /\ raw_name_parts = {} /\ name_parts = {}
    /\ ScanIdle
    /\ BatchIdle

ExtractRawNames ==
    /\ pc = "cite"
    /\ raw_name_parts' = extract_raw_names_from_citations(wikitext)
    /\ pc' = "cite_raw"
    /\ UNCHANGED <<maskVars, scanVars, name_parts, batchVars>>

ExtractNames ==
    /\ pc = "cite_raw"
    /\ name_parts' = extract_names_from_citations(wikitext)
    /\ pc' = "cite_done"
    /\ UNCHANGED <<maskVars, scanVars, raw_name_parts, batchVars>>

CiteNext == ExtractRawNames \/ ExtractNames

CiteSpec == CiteInit /\ [][CiteNext]_vars

-----------------------------------------------------------------------------
(* The batch pipelines: wikipedia_parser_processor (vocabulary from the    *)
(* citations of all revisions of a page) and wikipedia_hybrid_processor    *)
(* (vocabulary from the named entities of the last revision).              *)

\* TOKENS_TO_REMOVE of wikipedia_parser_processor.py
PARSER_TOKENS_TO_REMOVE == {
    <<"a", "n", "d">>, <<"t", "h", "e">>, <<"o", "f">>, <<"f", "o", "r">>, <<"i", "n">>, <<"n", "o", "t">>, <<"o", "n">>, <<"a", "n">>,
    <<"a">>, <<"a", "t">>, <<"w", "i", "t", "h">>, <<"b", "y">>, <<"A", "n", "d">>, <<"T", "h", "e">>, <<"O", "f">>, <<"F", "o", "r">>,
    <<"I", "n">>, <<"N", "o", "t">>, <<"O", "n">>, <<"A", "n">>, <<"A", "t">>, <<"W", "i", "t", "h">>, <<"B", "y">>,
    <<"E", "l", "e", "c", "t", "r", "o", "n", "i", "c">>, <<"J", "o", "u", "r", "n", "a", "l">>, <<"R", "e", "s", "e", "a", "r", "c", "h">>, <<"C", "e", "n", "t", "e", "r">>, <<"I", "n", "f", "o", "r", "m", "a", "t", "i", "o", "n">>,
    <<"L", "i", "g", "h", "t", "i", "n", "g">>, <<"I", "n", "c">>, <<"U", "n", "i", "t", "e", "d">>, <<"S", "t", "a", "t", "e", "s">>, <<"P", "h", "o", "t", "o">>, <<"I", "n", "s", "u", "l", "i", "n">>,
    <<"M", "e", "d", "i", "c", "a", "l">>, <<"C", "l", "i", "n", "i", "c", "a", "l">>, <<"A", "m", "e", "r", "i", "c", "a", "n">>, <<"U", "n", "i", "v", "e", "r", "s", "i", "t", "y">>, <<"I", "n", "s", "t", "i", "t", "u", "t", "e">>,
    <<"A", "s", "s", "o", "c", "i", "a", "t", "i", "o", "n">>, <<"N", "a", "t", "i", "o", "n", "a", "l">>, <<"H", "e", "a", "l", "t", "h">>, <<"T", "o", "r", "o", "n", "t", "o">>, <<"B", "o", "a", "r", "d">>,
    <<"I", "n", "t", "e", "l", "l", "i", "g", "e", "n", "c", "e">>, <<"S", "t", "u", "d", "y">>, <<"C", "o", "m", "p", "u", "t", "i", "n", "g">>, <<"M", "a", "c", "h", "i", "n", "e">>, <<"L", "e", "a", "r", "n", "i", "n", "g">>,
    <<"C", "o", "n", "g", "r", "e", "s", "s">>, <<"N", "e", "w">>, <<"U", "s", "e">>, <<"A", "I">>, <<"A", "i">>, <<"G", "e", "n", "e", "r", "a", "l">>, <<"D", "a", "t", "a">>,
    <<"A", "c", "c", "o", "u", "n", "t", "a", "b", "i", "l", "i", "t", "y">>, <<"M", "a", "c", "h", "i", "n", "e", "r", "y">>, <<"C", "a", "n", "a", "d", "a">>, <<"G", "l", "o", "b", "a", "l">>, <<"C", "o", "u", "n", "c", "i", "l">>,
    <<"P", "h", "D">>, <<"G", "e", "n", "e", "t", "i", "c", "a", "l", "l", "y">>, <<"H", "u", "m", "a", "n">>, <<"E", "n", "g", "i", "n", "e", "e", "r", "i", "n", "g">>, <<"C", "a", "n", "a", "d", "i", "a", "n">>,
    <<"C", "o", "m", "m", "i", "s", "s", "i", "o", "n">>, <<"S", "c", "i", "e", "n", "c", "e", "s">>, <<"E", "u", "r", "o", "p", "e", "a", "n">>, <<"U", "n", "i", "o", "n">>, <<"A", "g", "r", "i", "c", "u", "l", "t", "u", "r", "e">>,
    <<"h", "a", "v", "e">>, <<"O", "f", "f", "i", "c", "e">>, <<"F", "o", "o", "d">>, <<"I", "n", "s", "p", "e", "c", "t", "i", "o", "n">>, <<"A", "g", "e", "n", "c", "y">>,
    <<"C", "o", "m", "m", "i", "t", "t", "e", "e">>, <<"T", "e", "c", "h", "n", "o", "l", "o", "g", "y">>, <<"S", "c", "i", "e", "n", "c", "e">>, <<"P", "s", "y", "c", "h", "o", "l", "o", "g", "i", "c", "a", "l">>,
    <<"S", "c", "h", "i", "z", "o", "p", "h", "r", "e", "n", "i", "a">>, <<"D", "i", "s", "p", "l", "a", "y", "s">>, <<"D", "i", "s", "p", "l", "a", "y">>, <<"D", "r", "u", "g">>, <<"C", "r", "i", "s", "p", "r">>,
    <<"D", "i", "s", "e", "a", "s", "e">>, <<"P", "r", "e", "s", "i", "d", "e", "n", "t">>, <<"A", "d", "v", "i", "s", "o", "r", "s">>, <<"A", "d", "v", "i", "s", "o", "r">>, <<"E", "l", "e", "c", "t", "r", "i", "c">>,
    <<"A", "i", "r", "c", "r", "a", "f", "t">>, <<"C", "o", "r", "p", "o", "r", "a", "t", "i", "o", "n">>, <<"F", "e", "d", "e", "r", "a", "l">>, <<"A", "v", "i", "a", "t", "i", "o", "n">>,
    <<"A", "d", "m", "i", "n", "i", "s", "t", "r", "a", "t", "i", "o", "n">>, <<"E", "x", "p", "e", "r", "i", "m", "e", "n", "t", "a", "l">>, <<"I", "n", "s", "t", "i", "t", "u", "t">>, <<"F", "l", "u", "g", "z", "e", "u", "g", "b", "a", "u">>,
    <<"P", "o", "l", "y", "t", "e", "c", "h", "n", "i", "c">>, <<"D", "i", "a", "b", "e", "t", "e", "s">>, <<"S", "y", "s", "t", "e", "m">>, <<"O", "r", "g", "a", "n", "i", "z", "a", "t", "i", "o", "n">>, <<"S", "o", "c", "i", "e", "t", "y">>,
    <<"M", "e", "d", "i", "c", "i", "n", "e">>, <<"E", "v", "e", "n", "t">>, <<"H", "o", "r", "i", "z", "o", "n">>, <<"T", "e", "l", "e", "s", "c", "o", "p", "e">>, <<"E", "H", "T">>,
    <<"C", "o", "l", "l", "a", "b", "o", "r", "a", "t", "i", "o", "n">>, <<"A", "g", "r", "i", "c", "u", "l", "t", "u", "r", "a", "l">>, <<"M", "e", "n", "t", "a", "l">>, <<"h", "e", "a", "l", "t", "h">> }

\* TOKENS_TO_REMOVE of wikipedia_hybrid_processor.py
HYBRID_TOKENS_TO_REMOVE == {
    <<"a", "n", "d">>, <<"t", "h", "e">>, <<"o", "f">>, <<"f", "o", "r">>, <<"i", "n">>, <<"n", "o", "t">>, <<"o", "n">>, <<"a", "n">>,
    <<"a">>, <<"a", "t">>, <<"w", "i", "t", "h">>, <<"A", "n", "d">>, <<"T", "h", "e">>, <<"O", "f">>, <<"F", "o", "r">>, <<"I", "n">>,
    <<"N", "o", "t">>, <<"O", "n">>, <<"A", "n">>, <<"A", "t">>, <<"W", "i", "t", "h">>, <<"C", "a", "s">>, <<"S", "o", "m", "e">>,
    <<"I", "n", "s", "u", "l", "i", "n">> }

TOKENS_TO_REMOVE(p) == IF p = "parser" THEN PARSER_TOKENS_TO_REMOVE ELSE HYBRID_TOKENS_TO_REMOVE

\* the while loop of merge_adjacent_tokens_in_result_list, run to its end
RECURSIVE MergeLoop(_, _)
MergeLoop(rs, k) ==
    IF ~(k < Len(rs) - 1) THEN rs
    ELSE IF RuleA(rs[k + 1], rs[k + 2]) \/ RuleB(rs[k + 1], rs[k + 2])
         THEN MergeLoop(Pop([rs EXCEPT ![k + 1] = MergeTokens(rs[k + 1], rs[k + 2])], k + 2), k)
         ELSE MergeLoop(rs, k + 1)

merge_adjacent_tokens_in_result_list(rs) == MergeLoop(rs, 0)

find_names_in_wikitext(w, name_set_, q) ==
    LET text == filter_wikitext(w)
    IN  exclude_uniform_case_tokens(merge_adjacent_tokens_in_result_list(
            ScanFrom(text, NameMatches(text, 1, q), 1, name_set_, <<>>)))

\* _extract_names_with_reference_list: [m.get("word", "") for m in matches if "word" in m];
\* raises: find_names_in_wikitext raised, the error is logged and [] returned
ExtractNamesWithReferenceList(text, refs, raises) ==
    LET matches == find_names_in_wikitext(text, refs, FALSE)
    IN  IF raises THEN <<>> ELSE [k \in 1..Len(matches) |-> matches[k].word]

\* not getattr(revision, "text", None)
NoText(revision) == revision.text = None \/ revision.text = <<>>

\* reference_list -= TOKENS_TO_REMOVE
KeepAllTokens(refs, stop) == refs
RemoveTokens(refs, stop) == refs \ stop

\* the revisions of page_list that have a text
WithText(page_list) == {page_list[k].id : k \in {j \in 1..Len(page_list) : ~NoText(page_list[j])}}

\* _build_reference_list(page_list); raising: the revisions for which
\* extract_names_from_citations raised (logged, the revision adds nothing)
BuildReferenceListOf(page_list, raising) ==
    RemoveTokens(
        UNION {extract_names_from_citations(page_list[k].text) :
                  k \in {j \in 1..Len(page_list) :
                            ~NoText(page_list[j]) /\ page_list[j].id \notin raising}},
        TOKENS_TO_REMOVE("parser"))

\* SpacyReferenceListProcessor.extract_names: the parts of one PERSON entity:
\* characters other than \w and \s, digits and _ become spaces; split; parts of
\* one lowercase letter are dropped
EntityParts(ent) ==
    LET cleaned == [k \in 1..Len(ent) |->
                       IF (IsWord(ent[k]) \/ IsSpace(ent[k])) /\ ent[k] \notin Digits \cup {"_"}
                       THEN ent[k] ELSE " "]
        parts == Split(Strip(cleaned))
    IN  {parts[k] : k \in {j \in 1..Len(parts) : ~(Len(parts[j]) = 1 /\ islower(parts[j]))}}

\* what the entity recognizer can find in the plain text of a last revision
EntitySets == {{}, {<<"T", "h", "e">>}, {<<"A", "l", " ", "S", "m", "i", "t", "h">>}, {<<"T", "h", "e", " ", "S", "m", "i", "t", "h", "-", "2", " ", "a">>, <<"I", "n", "s", "u", "l", "i", "n">>}}

\* _build_reference_list_from_last_revision, the recognizer having found ents;
\* failed: fetching the revision or the recognizer raised
BuildReferenceListFromLastRevisionOf(ents, failed) ==
    RemoveTokens(IF failed THEN {} ELSE UNION {EntityParts(ent) : ent \in ents},
                 TOKENS_TO_REMOVE("hybrid"))

DigitChars == <<"0", "1", "2", "3", "4", "5", "6", "7", "8", "9">>

\* str(revision.id)
RECURSIVE Str(_)
Str(n) == IF n < 10 THEN <<DigitChars[n + 1]>> ELSE Str(n \div 10) \o <<DigitChars[(n % 10) + 1]>>

(* A dump is read as a stream of at most MaxDumpItems items: a revision     *)
(* text, or the start of the next page.  Revisions are numbered in order.  *)

MaxDumpItems == 3

\* at most MaxErrors failures are raised in one run
MaxErrors == 3

PAGE == <<"<page>">>
RevisionTexts == {None, <<"{", "{", "c", "i", "t", "e", "|", "l", "a", "s", "t", "=", "S", "m", "i", "t", "h", "|", "f", "i", "r", "s", "t", "=", "A", "l", "}", "}", " ", "A", "l", " ", "S", "m", "i", "t", "h">>, <<"{", "{", "c", "i", "t", "e", "|", "l", "a", "s", "t", "=", "T", "h", "e", "}", "}", " ", "T", "h", "e">>}

\* the pages of the stream items[k..], the revision ids starting at id
RECURSIVE PagesOf(_, _, _, _)
PagesOf(items, k, id, page) ==
    IF k > Len(items) THEN <<page>>
    ELSE IF items[k] = PAGE THEN <<page>> \o PagesOf(items, k + 1, id, <<>>)
    ELSE PagesOf(items, k + 1, id + 1, Append(page, [id |-> id, text |-> items[k]]))

\* the dumps read from n items
Dumps(n) == {PagesOf(items, 1, 1, <<>>) : items \in [1..n -> RevisionTexts \cup {PAGE}]}

RevisionIds(d) == UNION {{d[p][k].id : k \in 1..Len(d[p])} : p \in 1..Len(d)}

BatchInit ==
    /\ pc = "pages"
    /\ pipeline \in {"parser", "hybrid"}
    /\ \E n \in 0..MaxDumpItems : dump \in Dumps(n)
    /\ revision_mapping \in {RevisionIds(dump), {r \in RevisionIds(dump) : r % 2 = 1}}
    /\ page_no = 1 /\ rev_no = 0
    /\ reference_list = {}
    /\ scanned = {} /\ written = {} /\ errors = {}
    /\ wikitext = <<>> /\ processed_text = <<>> /\ remasked = <<>>
    /\ ScanIdle
    /\ CiteIdle

\* for page in dump: page_list = list(page); if not page_list: continue
SkipEmptyPage ==
    /\ pc = "pages" /\ page_no <= Len(dump)
    /\ dump[page_no] = <<>>
    /\ page_no' = page_no + 1
    /\ UNCHANGED <<pc, maskVars, scanVars, citeVars, pipeline, dump, revision_mapping,
                   rev_no, reference_list, scanned, written, errors>>

\* wikipedia_parser_processor: reference_list = _build_reference_list(page_list)
BuildReferenceList ==
    /\ pc = "pages" /\ page_no <= Len(dump)
    /\ dump[page_no] # <<>>
    /\ pipeline = "parser"
    /\ \E raising \in SUBSET WithText(dump[page_no]) :
          /\ Cardinality(errors) + Cardinality(raising) <= MaxErrors
          /\ reference_list' = BuildReferenceListOf(dump[page_no], raising)
          /\ errors' = errors \cup {[revision |-> r, stage |-> "extract"] : r \in raising}
    /\ rev_no' = 1
    /\ pc' = "revisions"
    /\ UNCHANGED <<maskVars, scanVars, citeVars, pipeline, dump, revision_mapping,
                   page_no, scanned, written>>

\* wikipedia_hybrid_processor: reference_list =
\* _build_reference_list_from_last_revision(last_revision_id), not empty
BuildReferenceListFromLastRevision ==
    /\ pc = "pages" /\ page_no <= Len(dump)
    /\ dump[page_no] # <<>>
    /\ pipeline = "hybrid"
    /\ \E ents \in EntitySets :
          /\ BuildReferenceListFromLastRevisionOf(ents, FALSE) # {}
          /\ reference_list' = BuildReferenceListFromLastRevisionOf(ents, FALSE)
    /\ rev_no' = 1
    /\ pc' = "revisions"
    /\ UNCHANGED <<maskVars, scanVars, citeVars, pipeline, dump, revision_mapping,
                   page_no, scanned, written, errors>>

\* wikipedia_hybrid_processor: if not reference_list: continue
SkipEmptyReferenceList ==
    /\ pc = "pages" /\ page_no <= Len(dump)
    /\ dump[page_no] # <<>>
    /\ pipeline = "hybrid"
    /\ \E ents \in EntitySets : \E raises \in BOOLEAN :
          /\ raises => Cardinality(errors) < MaxErrors
          /\ BuildReferenceListFromLastRevisionOf(ents, raises) = {}
          /\ reference_list' = BuildReferenceListFromLastRevisionOf(ents, raises)
          /\ errors' = IF raises
                       THEN errors \cup {[revision |-> dump[page_no][Len(dump[page_no])].id,
                                          stage |-> "extract"]}
                       ELSE errors
    /\ page_no' = page_no + 1
    /\ UNCHANGED <<pc, maskVars, scanVars, citeVars, pipeline, dump, revision_mapping,
                   rev_no, scanned, written>>

\* for revision in page_list: if not getattr(revision, "text", None): continue
SkipRevisionWithoutText ==
    /\ pc = "revisions" /\ rev_no <= Len(dump[page_no])
    /\ NoText(dump[page_no][rev_no])
    /\ rev_no' = rev_no + 1
    /\ UNCHANGED <<pc, maskVars, scanVars, citeVars, pipeline, dump, revision_mapping,
                   page_no, reference_list, scanned, written, errors>>

\* if revision.id in revision_mapping: (not so)
SkipUnmappedRevision ==
    /\ pc = "revisions" /\ rev_no <= Len(dump[page_no])
    /\ ~NoText(dump[page_no][rev_no])
    /\ dump[page_no][rev_no].id \notin revision_mapping
    /\ rev_no' = rev_no + 1
    /\ UNCHANGED <<pc, maskVars, scanVars, citeVars, pipeline, dump, revision_mapping,
                   page_no, reference_list, scanned, written, errors>>

\* names = _extract_names_with_reference_list(...); the result is written
ProcessRevision ==
    /\ pc = "revisions" /\ rev_no <= Len(dump[page_no])
    /\ ~NoText(dump[page_no][rev_no])
    /\ dump[page_no][rev_no].id \in revision_mapping
    /\ scanned' = scanned \cup {dump[page_no][rev_no].id}
    /\ written' = written \cup
           {[revision_id |-> Str(dump[page_no][rev_no].id),
             names |-> ExtractNamesWithReferenceList(dump[page_no][rev_no].text,
                                                     reference_list, FALSE)]}
    /\ rev_no' = rev_no + 1
    /\ UNCHANGED <<pc, maskVars, scanVars, citeVars, pipeline, dump, revision_mapping,
                   page_no, reference_list, errors>>

\* the same, find_names_in_wikitext raising: logged, the names are []
ProcessRevisionScanFails ==
    /\ pc = "revisions" /\ rev_no <= Len(dump[page_no])
    /\ Cardinality(errors) < MaxErrors
    /\ ~NoText(dump[page_no][rev_no])
    /\ dump[page_no][rev_no].id \in revision_mapping
    /\ scanned' = scanned \cup {dump[page_no][rev_no].id}
    /\ written' = written \cup
           {[revision_id |-> Str(dump[page_no][rev_no].id),
             names |-> ExtractNamesWithReferenceList(dump[page_no][rev_no].text,
                                                     reference_list, TRUE)]}
    /\ errors' = errors \cup {[revision |-> dump[page_no][rev_no].id, stage |-> "scan"]}
    /\ rev_no' = rev_no + 1
    /\ UNCHANGED <<pc, maskVars, scanVars, citeVars, pipeline, dump, revision_mapping,
                   page_no, reference_list>>

\* the same, os.makedirs / open / json.dump raising: logged, nothing written
ProcessRevisionWriteAborts ==
    /\ pc = "revisions" /\ rev_no <= Len(dump[page_no])
    /\ Cardinality(errors) < MaxErrors
    /\ ~NoText(dump[page_no][rev_no])
    /\ dump[page_no][rev_no].id \in revision_mapping
    /\ scanned' = scanned \cup {dump[page_no][rev_no].id}
    /\ errors' = errors \cup {[revision |-> dump[page_no][rev_no].id, stage |-> "write"]}
    /\ pc' = "stopped"
    /\ UNCHANGED <<maskVars, scanVars, citeVars, pipeline, dump, revision_mapping,
                   page_no, rev_no, reference_list, written>>
ProcessRevisionWriteFails ==
    /\ pc = "revisions" /\ rev_no <= Len(dump[page_no])
    /\ Cardinality(errors) < MaxErrors
    /\ ~NoText(dump[page_no][rev_no])
    /\ dump[page_no][rev_no].id \in revision_mapping
    /\ scanned' = scanned \cup {dump[page_no][rev_no].id}
    /\ errors' = errors \cup {[revision |-> dump[page_no][rev_no].id, stage |-> "write"]}
    /\ rev_no' = rev_no + 1
    /\ UNCHANGED <<pc, maskVars, scanVars, citeVars, pipeline, dump, revision_mapping,
                   page_no, reference_list, written>>

\* the loop over page_list is over: the next page
NextPage ==
    /\ pc = "revisions" /\ rev_no > Len(dump[page_no])
    /\ page_no' = page_no + 1
    /\ pc' = "pages"
    /\ UNCHANGED <<maskVars, scanVars, citeVars, pipeline, dump, revision_mapping,
                   rev_no, reference_list, scanned, written, errors>>

BatchNext ==
    \/ SkipEmptyPage \/ BuildReferenceList \/ BuildReferenceListFromLastRevision
    \/ SkipEmptyReferenceList \/ SkipRevisionWithoutText \/ SkipUnmappedRevision
    \/ ProcessRevision \/ ProcessRevisionScanFails \/ ProcessRevisionWriteFails \/ NextPage

BatchSpec == BatchInit /\ [][BatchNext]_vars

-----------------------------------------------------------------------------
(* Citation author fields and the case rule.                               *)

\* every letter of the value is lowercase, or every letter is uppercase; a
\* value without letters is both
UniformCaseIgnoringNonLetters(value) ==
    \/ \A k \in 1..Len(value) : IsLetter(value[k]) => value[k] \in Lower
    \/ \A k \in 1..Len(value) : IsLetter(value[k]) => value[k] \in Upper

\* C10: a citation author field whose cleaned value is entirely lowercase or
\* entirely uppercase when non-letters are ignored (a value that is empty or
\* has no letters included) is never yielded by
\* extract_raw_names_from_citations, and contributes no token to
\* extract_names_from_citations: every token comes from another field.
UniformCaseFieldsRejected ==
    (pc = "cite_done" /\ wikitext # None) =>
        LET fields == AuthorFields(wikitext, 1)
            cleaned == {CleanField(fields[k]) : k \in 1..Len(fields)}
            uniform == {c \in cleaned : UniformCaseIgnoringNonLetters(c)}
        IN  /\ \A c \in uniform : c \notin raw_name_parts
            /\ name_parts \subseteq UNION {NameTokens(c) : c \in cleaned \ uniform}

-----------------------------------------------------------------------------
(* The vocabulary of a page.                                                *)

\* C8: no stoplist entry of the pipeline is ever an element of the vocabulary
\* its builder returned, whatever was extracted from the page's revisions.
StoplistNeverInVocabulary ==
    pipeline \in {"parser", "hybrid"} =>
        \A w \in TOKENS_TO_REMOVE(pipeline) : w \notin reference_list

\* a vocabulary was built from a page one of whose citations names a
\* stoplist entry, and something is left of it
StoplistNeverInVocabularyWitness ==
    /\ pc = "revisions" /\ pipeline = "parser"
    /\ reference_list # {}
    /\ \E k \in 1..Len(dump[page_no]) :
          /\ ~NoText(dump[page_no][k])
          /\ extract_names_from_citations(dump[page_no][k].text)
                 \cap TOKENS_TO_REMOVE("parser") # {}

\* C9: when the vocabulary of a page is empty after the stoplist is
\* subtracted, no revision of that page is scanned and no result is written
\* for it.
EmptyVocabularySkipsPage ==
    (pc = "revisions" /\ reference_list = {}) =>
        \A k \in 1..Len(dump[page_no]) :
            /\ dump[page_no][k].id \notin scanned
            /\ \A w \in written : w.revision_id # Str(dump[page_no][k].id)

-----------------------------------------------------------------------------
(* The quotes toggle of find_names_in_wikitext.                            *)

QuoteCharacters == {"'", "\""}

\* a quote character stands between two letters of s
QuoteInsideLetterRun(s) ==
    \E k \in 2..(Len(s) - 1) :
        s[k] \in QuoteCharacters /\ IsLetter(s[k - 1]) /\ IsLetter(s[k + 1])

\* one of the runs ms of s holds a quote character
SomeRunHoldsQuote(s, ms) ==
    \E k \in 1..Len(ms) : \E p \in ms[k].start..(ms[k].end - 1) : s[p] \in QuoteCharacters

\* C11: when quotes is set, the runs find_names_in_wikitext scans include the
\* quote characters, so that a masked text with a quote character inside a
\* letter run is cut into other runs than with quotes unset.
QuotesJoinRuns ==
    (pc = "merge" /\ QuoteInsideLetterRun(processed_text)) =>
        /\ quotes => SomeRunHoldsQuote(processed_text, NameMatches(processed_text, 1, TRUE))
        /\ NameMatches(processed_text, 1, TRUE) # NameMatches(processed_text, 1, FALSE)

-----------------------------------------------------------------------------
(* The closing headings.                                                   *)

\* a heading == External links ==, == See also == or == Further reading ==
\* (any letter case, optional whitespace inside the markers) starts at index p of s
HeadingOccursAt(s, p) ==
    LET q == SkipSpace(s, p + 2)
        named == {h \in 1..Len(HEADINGS) : HasPrefix(s, q, HEADINGS[h], TRUE)}
    IN  /\ HasPrefix(s, p, <<"=", "=">>, FALSE)
        /\ named # {}
        /\ HasPrefix(s, SkipSpace(s, q + Len(HEADINGS[Min(named)])), <<"=", "=">>, FALSE)

HeadingStarts(s) == {p \in 1..Len(s) : HeadingOccursAt(s, p)}

\* index p lies inside no match of the combined pattern that starts before p
OutsideEarlierMarkup(s, p) ==
    \A k \in 1..Len(CombinedMatches(s, 1)) :
        ~(CombinedMatches(s, 1)[k].start < p /\ p < CombinedMatches(s, 1)[k].end)

OnlySpacesFrom(s, p) == \A k \in p..Len(s) : s[k] = " "

\* C12 as stated: in a text in which one of the three headings occurs, the
\* output of filter_wikitext holds only spaces from the start of the first
\* such heading to the end of the document.
FirstHeadingMasksToEnd ==
    (pc = "filtered" /\ wikitext # None /\ HeadingStarts(wikitext) # {}) =>
        OnlySpacesFrom(processed_text, Min(HeadingStarts(wikitext)))

\* C12: from the start of every such heading that lies inside no template,
\* ref element or comment matched before it, the output of filter_wikitext
\* holds only spaces to the end of the document.
HeadingOutsideMarkupMasksToEnd ==
    (pc = "filtered" /\ wikitext # None) =>
        \A p \in HeadingStarts(wikitext) :
            OutsideEarlierMarkup(wikitext, p) => OnlySpacesFrom(processed_text, p)

\* a heading after a kept letter and before other letters has been masked
\* together with the letters after it
HeadingOutsideMarkupMasksToEndWitness ==
    /\ pc = "filtered" /\ wikitext # None
    /\ \E p \in HeadingStarts(wikitext) :
          /\ OutsideEarlierMarkup(wikitext, p)
          /\ \E k \in 1..(p - 1) : wikitext[k] \in Letters /\ processed_text[k] = wikitext[k]
          /\ \E r \in (p + 2)..(Len(wikitext) - 2) : HasPrefix(wikitext, r, <<"=", "=">>, FALSE)
                 /\ \E k \in (r + 2)..Len(wikitext) : wikitext[k] \in Letters
          /\ OnlySpacesFrom(processed_text, p)

-----------------------------------------------------------------------------
(* Citation-style templates.                                               *)

\* the openers of the template alternatives of the combined pattern
TemplateOpeners ==
    {COMBINED_PATTERN[a].open :
        a \in {b \in 1..Len(COMBINED_PATTERN) : COMBINED_PATTERN[b].kind = "template"}}

\* the openers that stand at index p of s
OpenersAt(s, p) == {open \in TemplateOpeners : HasPrefix(s, p, open, TRUE)}

\* C13: for a template opener (outside any earlier masked span) that is
\* followed somewhere by a closing }}, the output of filter_wikitext holds
\* only spaces from the opener up to and including the first following }};
\* the letters of an opener with no following }} are left as they are.
TemplateMaskedUpToFirstClose ==
    (pc = "filtered" /\ wikitext # None) =>
        \A p \in 1..Len(wikitext) : \A open \in OpenersAt(wikitext, p) :
            OutsideEarlierMarkup(wikitext, p) =>
                LET close == FirstLiteral(wikitext, p + Len(open), <<"}", "}">>, FALSE)
                IN  IF close # 0
                    THEN \A k \in p..(close + 1) : processed_text[k] = " "
                    ELSE \A k \in (p + 2)..(p + Len(open) - 1) :
                             processed_text[k] = wikitext[k]

-----------------------------------------------------------------------------
(* Piped internal links.                                                   *)

\* the piped links [[target|display]] of s that share no offset with a match
\* of the combined pattern, as records [start, end, g1]: the display starts
\* at g1, the closing brackets stand at end - 2 and end - 1
LinksOutsideMarkup(s) ==
    {PipeMatchAt(s, p) : p \in {q \in 1..Len(s) :
        /\ PipeMatchAt(s, q).end # 0
        /\ (q..(PipeMatchAt(s, q).end - 1)) \cap Covered(CombinedMatches(s, 1)) = {}}}

\* C14 as stated: the output of filter_wikitext has spaces at the offsets of
\* the target and the pipe of every such link, and the display text and the
\* closing brackets verbatim at their offsets.
LinkDisplayAndBracketsVerbatim ==
    (pc = "filtered" /\ wikitext # None) =>
        \A m \in LinksOutsideMarkup(wikitext) :
            /\ \A k \in (m.start + 2)..(m.g1 - 1) : processed_text[k] = " "
            /\ \A k \in m.g1..(m.end - 1) : processed_text[k] = wikitext[k]

\* C14: after the pipe substitution the text has spaces at the offsets of
\* the target and the pipe of every such link and the display text and the
\* closing brackets verbatim; the output of filter_wikitext has spaces at
\* the offsets of the target, the pipe and the closing brackets, and of the
\* display text the characters the letter filter keeps, the others being
\* spaces.
LinkTargetMaskedDisplayKept ==
    (wikitext # None /\ pc \in {"piped", "filtered"}) =>
        \A m \in LinksOutsideMarkup(wikitext) :
            /\ \A k \in (m.start + 2)..(m.g1 - 1) : processed_text[k] = " "
            /\ pc = "piped" =>
                  \A k \in m.g1..(m.end - 1) : processed_text[k] = wikitext[k]
            /\ pc = "filtered" =>
                  /\ \A k \in m.g1..(m.end - 3) :
                        processed_text[k] = IF KeptCharacter(wikitext[k]) THEN wikitext[k] ELSE " "
                  /\ processed_text[m.end - 2] = " " /\ processed_text[m.end - 1] = " "

\* a link with letters in its target and in its display, next to a masked
\* comment, has been filtered
LinkTargetMaskedDisplayKeptWitness ==
    /\ pc = "filtered" /\ wikitext # None
    /\ CombinedMatches(wikitext, 1) # <<>>
    /\ \E m \in LinksOutsideMarkup(wikitext) :
          /\ \E k \in (m.start + 2)..(m.g1 - 2) : wikitext[k] \in Letters /\ processed_text[k] = " "
          /\ \E k \in m.g1..(m.end - 3) : wikitext[k] \in Letters /\ processed_text[k] = wikitext[k]
          /\ wikitext[m.end - 1] = "]" /\ processed_text[m.end - 1] = " "

-----------------------------------------------------------------------------
(* The merge loop: fixpoint, termination, conservation.                    *)

\* one of the two rules merges the neighbours current and next_token
Mergeable(current, next_token) == RuleA(current, next_token) \/ RuleB(current, next_token)

\* the entries a..b of rs are chained pairwise by the rules
Chained(rs, a, b) == \A k \in a..(b - 1) : Mergeable(rs[k], rs[k + 1])

\* C15: in the list merge_adjacent_tokens_in_result_list returns no two
\* consecutive entries satisfy Rule A or Rule B, and every run of three or
\* more input matches chained pairwise by the rules lies in one single entry.
MergedToFixpoint ==
    pc \in {"exclude", "done"} =>
        /\ \A k \in 1..(Len(merged) - 1) : ~Mergeable(merged[k], merged[k + 1])
        /\ \A a \in 1..Len(merge_input) : \A b \in (a + 2)..Len(merge_input) :
              Chained(merge_input, a, b) =>
                  \E k \in 1..Len(merged) :
                      /\ merged[k].positionStart <= merge_input[a].positionStart
                      /\ merge_input[b].positionEnd <= merged[k].positionEnd

\* three matches, the first two chained by Rule B and the last two by Rule
\* A, have become one entry
MergedToFixpointWitness ==
    /\ pc = "exclude"
    /\ Len(merge_input) = 3
    /\ ~RuleA(merge_input[1], merge_input[2]) /\ RuleB(merge_input[1], merge_input[2])
    /\ RuleA(merge_input[2], merge_input[3])
    /\ Len(merged) = 1

-----------------------------------------------------------------------------
(* Failures in the batch loop of the citation-based pipeline.              *)

\* the loop over the dump is over
Finished == pc = "pages" /\ page_no > Len(dump)

\* the loop has passed revision k of page p
Passed(p, k) == p < page_no \/ (p = page_no /\ pc = "revisions" /\ k < rev_no)

\* the revision was scanned, and its result was written unless writing it failed
Handled(revision) ==
    /\ revision.id \in scanned
    /\ [revision |-> revision.id, stage |-> "write"] \notin errors
           => \E w \in written : w.revision_id = Str(revision.id)

\* every revision the loop has passed that has a text and an output file
\* name was handled, whatever failed before it
PassedRevisionsHandled ==
    pipeline = "parser" =>
        /\ pc \in {"pages", "revisions"}
        /\ \A p \in 1..Len(dump) : \A k \in 1..Len(dump[p]) :
              (Passed(p, k) /\ ~NoText(dump[p][k]) /\ dump[p][k].id \in revision_mapping)
                  => Handled(dump[p][k])

\* the step moves the loops forward: to a later page, from the page loop
\* into the revision loop of the page, or to a later revision of the page
CursorAdvances ==
    \/ page_no' > page_no
    \/ page_no' = page_no /\ pc = "pages" /\ pc' = "revisions"
    \/ page_no' = page_no /\ pc = "revisions" /\ pc' = "revisions" /\ rev_no' > rev_no

\* C16: in the citation-based pipeline a failure while extracting the
\* citation names of a revision, while scanning a revision or while writing
\* a revision's result does not stop the run: every step, failing or not,
\* moves the loops forward, and every other revision with a text whose id is
\* in the revision mapping is scanned and has its result written.
FailuresDoNotStopTheRun ==
    /\ [](PassedRevisionsHandled)
    /\ [][pipeline = "parser" => CursorAdvances]_vars

\* a run is over in which extracting from and writing a revision failed and
\* a revision of a later page was scanned and written with the names found
FailuresDoNotStopTheRunWitness ==
    /\ pipeline = "parser" /\ Finished
    /\ \E r \in RevisionIds(dump) :
          /\ [revision |-> r, stage |-> "extract"] \in errors
          /\ [revision |-> r, stage |-> "write"] \in errors
          /\ \E w \in written : w.names # <<>> /\ \E q \in RevisionIds(dump) :
                 /\ q > r
                 /\ w.revision_id = Str(q)
                 /\ \A e \in errors : e.revision # q

-----------------------------------------------------------------------------
\* the merge loop, which always takes its next step
MergeFairSpec == MergeSpec /\ WF_vars(MergeNext)

\* len(results) - 1 - i, what the loop condition compares with 0
Remaining(rs, k) == Len(rs) - 1 - k

\* C17 as stated: the loop is left after at most n - 1 iterations, n the
\* length of the input list.
IterationsBelowInputLength ==
    pc \in {"exclude", "done"} => iterations <= Len(merge_input) - 1

\* C17: the merge loop terminates for every input list of n matches, after
\* at most n - 1 iterations if n >= 1 and without any iteration if n = 0:
\* every iteration removes one element or advances the index, so that
\* len(results) - 1 - i strictly decreases.
MergeLoopTerminates ==
    /\ [](iterations <= Max({Len(merge_input) - 1, 0}))
    /\ [][(pc = "merge" /\ pc' = "merge")
              => Remaining(results', i') < Remaining(results, i)]_vars
    /\ <>(pc = "exclude")

\* the loop has run on three matches and is over after two iterations, one
\* that merged and one that advanced
MergeLoopTerminatesWitness ==
    /\ pc = "exclude"
    /\ Len(merge_input) = 3 /\ Len(merged) = 2 /\ i = 1
    /\ iterations = 2

-----------------------------------------------------------------------------
\* the space-delimited words of all entries of a list, in list order
RECURSIVE WordsOf(_)
WordsOf(rs) == IF rs = <<>> THEN <<>> ELSE Split(rs[1].word) \o WordsOf(Tail(rs))

\* the words of the entries of a list, joined by single spaces
RECURSIVE JoinWords(_)
JoinWords(rs) ==
    IF Len(rs) = 1 THEN rs[1].word
    ELSE rs[1].word \o <<" ">> \o JoinWords(Tail(rs))

\* the entries of out are, in order, runs of consecutive entries of in: each
\* has the words of its run, the positionStart of the first match of the run
\* and the positionEnd of the last one, and no match of in is left over
RECURSIVE Constituents(_, _)
Constituents(out, in) ==
    IF out = <<>> THEN in = <<>>
    ELSE \E m \in 1..Len(in) :
            /\ out[1].word = JoinWords(SubSeq(in, 1, m))
            /\ out[1].positionStart = in[1].positionStart
            /\ out[1].positionEnd = in[m].positionEnd
            /\ Constituents(Tail(out), SubSeq(in, m + 1, Len(in)))

\* C18: merge_adjacent_tokens_in_result_list loses and reorders no token: the
\* space-delimited words of the returned entries, concatenated in list order,
\* are the sequence of the input entries' words, and every returned entry
\* has the positionStart of its first constituent input match and the
\* positionEnd of its last one.
MergeKeepsTokensAndBounds ==
    pc \in {"exclude", "done"} =>
        /\ WordsOf(merged) = WordsOf(merge_input)
        /\ Constituents(merged, merge_input)

\* three matches were returned as one entry
MergeKeepsTokensAndBoundsWitness ==
    /\ pc \in {"exclude", "done"}
    /\ Len(merge_input) = 3 /\ Len(merged) = 1
    /\ Len(Split(merged[1].word)) = 3

====
